---- MODULE Spec2Model ----
(***************************************************************************)
(* A model of the Meta Build Lab application: the role/module access       *)
(* matrix (core/models.py), the identifier generators, the Sample and Job  *)
(* status workflows (operations/models.py) and the views that drive them   *)
(* (operations/views.py, operations/forms.py).                             *)
(*                                                                         *)
(* Character strings are sequences of one-character strings, so that       *)
(* slicing, parsing, padding and the database's lexicographic ORDER BY     *)
(* are computed the way the code computes them.                            *)
(***************************************************************************)
EXTENDS Naturals, Integers, Sequences, FiniteSets, TLC

(***************************************************************************)
(* Bounds of the model.                                                    *)
(***************************************************************************)
MaxSamples == 1
MaxJobs == 2
MaxReceipts == 2
MaxEdits == 1
MaxTicks == 1
MaxNotes == 1
MaxRows == 3

(***************************************************************************)
(* Strings.                                                                *)
(***************************************************************************)
\* The characters that occur in identifiers, in ASCII (binary collation) order.
Alphabet == <<"-", "0", "1", "2", "3", "4", "5", "6", "7", "8", "9",
              "B", "C", "F", "J", "L", "M", "O", "R", "S", "X">>

Digits == <<"0", "1", "2", "3", "4", "5", "6", "7", "8", "9">>

Ord(c) == CHOOSE i \in 1..Len(Alphabet) : Alphabet[i] = c

IsDigit(c) == \E i \in 1..Len(Digits) : Digits[i] = c

DigitVal(c) == (CHOOSE i \in 1..Len(Digits) : Digits[i] = c) - 1

\* str(n) for n >= 0: the decimal digits of n.
RECURSIVE NumStr(_)
NumStr(n) ==
    IF n < 10 THEN <<Digits[n + 1]>>
    ELSE NumStr(n \div 10) \o <<Digits[(n % 10) + 1]>>

\* Left-pad s with "0" to at least w characters.
RECURSIVE ZeroPad(_, _)
ZeroPad(s, w) == IF Len(s) >= w THEN s ELSE ZeroPad(<<"0">> \o s, w)

\* f"{n:0Wd}": at least w characters, more when n needs them; the sign of a
\* negative n takes one of them.
FormatD(n, w) ==
    IF n >= 0 THEN ZeroPad(NumStr(n), w)
    ELSE <<"-">> \o ZeroPad(NumStr(0 - n), w - 1)

\* s.startswith(p)
StartsWith(s, p) == Len(s) >= Len(p) /\ SubSeq(s, 1, Len(p)) = p

\* s[-n:]
LastChars(s, n) == IF Len(s) <= n THEN s ELSE SubSeq(s, Len(s) - n + 1, Len(s))

\* s.split('-')[-1]: what follows the last "-" of s (all of s when it has none).
RECURSIVE AfterLastDash(_)
AfterLastDash(s) ==
    IF s = <<>> THEN <<>>
    ELSE IF s[Len(s)] = "-" THEN <<>>
    ELSE AfterLastDash(SubSeq(s, 1, Len(s) - 1)) \o <<s[Len(s)]>>

\* The value of a string of decimal digits.
RECURSIVE DigitsValue(_)
DigitsValue(s) ==
    IF s = <<>> THEN 0
    ELSE 10 * DigitsValue(SubSeq(s, 1, Len(s) - 1)) + DigitVal(s[Len(s)])

IsNumeral(s) == s # <<>> /\ \A i \in 1..Len(s) : IsDigit(s[i])

\* int(s) returns: s is a numeral, possibly after a sign.  (int() also allows
\* blanks around and underscores inside; the identifiers here have neither.)
\* Otherwise int(s) raises ValueError.
Parses(s) ==
    \/ IsNumeral(s)
    \/ Len(s) >= 2 /\ s[1] \in {"+", "-"} /\ IsNumeral(Tail(s))

\* int(s) for a string that Parses.
ParseInt(s) ==
    IF s[1] = "-" THEN 0 - DigitsValue(Tail(s))
    ELSE IF s[1] = "+" THEN DigitsValue(Tail(s))
    ELSE DigitsValue(s)

\* a < b in the order ORDER BY uses on a text column.
RECURSIVE LexLess(_, _)
LexLess(a, b) ==
    IF b = <<>> THEN FALSE
    ELSE IF a = <<>> THEN TRUE
    ELSE IF a[1] # b[1] THEN Ord(a[1]) < Ord(b[1])
    ELSE LexLess(Tail(a), Tail(b))

\* .order_by('-column').first() over a non-empty set of values.
LastInOrder(S) == CHOOSE s \in S : \A t \in S : t = s \/ LexLess(t, s)

(***************************************************************************)
(* Time: the number of months since year 0, as timezone.now() reports it.  *)
(***************************************************************************)
YearOf(t) == t \div 12

MonthOf(t) == (t % 12) + 1

\* December 2026: the next month is in the next year.
StartTime == 2026 * 12 + 11

(***************************************************************************)
(* Identifier generators.  Each takes the values of the identifier column  *)
(* it queries and the time of the call.                                    *)
(***************************************************************************)
SamplePrefix(t) == <<"M", "B", "L">> \o FormatD(YearOf(t), 4) \o FormatD(MonthOf(t), 2)

ClientRefPrefix(t) == <<"C", "R">> \o FormatD(YearOf(t), 4) \o FormatD(MonthOf(t), 2)

JobPrefix(t) == <<"J", "O", "B">> \o FormatD(YearOf(t), 4) \o FormatD(MonthOf(t), 2)

ReceiptPrefix(t) == <<"S", "R", "F", "-">> \o NumStr(YearOf(t)) \o <<"-">>

\* What .first() returns for an empty queryset.
None == <<>>

\* Model.objects.filter(column__startswith=prefix).order_by('-column').first()
LastOfPeriod(prefix, column) ==
    LET matching == {s \in column : StartsWith(s, prefix)}
    IN  IF matching # {} THEN LastInOrder(matching) ELSE None

\* NextMonthly with an except branch that starts the count at 0.
NextMonthly_FromZero(prefix, column) ==
    LET last == LastOfPeriod(prefix, column)
    IN  IF last # None
        THEN IF Parses(LastChars(last, 4))
             THEN prefix \o FormatD(ParseInt(LastChars(last, 4)) + 1, 4)
             ELSE prefix \o FormatD(0, 4)
        ELSE prefix \o FormatD(1, 4)

\* The body the three monthly generators share: the row with the greatest
\* identifier of the period, int() of its last four characters plus one,
\* 1 when there is no such row or int() raises.
NextMonthly(prefix, column) ==
    LET last == LastOfPeriod(prefix, column)
    IN  IF last # None
        THEN IF Parses(LastChars(last, 4))
             THEN prefix \o FormatD(ParseInt(LastChars(last, 4)) + 1, 4)
             ELSE prefix \o FormatD(1, 4)
        ELSE prefix \o FormatD(1, 4)

generate_sample_id(column, t) == NextMonthly(SamplePrefix(t), column)

generate_client_reference(column, t) == NextMonthly(ClientRefPrefix(t), column)

generate_job_id(column, t) == NextMonthly(JobPrefix(t), column)

generate_receipt_number(column, t) ==
    LET prefix == ReceiptPrefix(t)
        last_receipt == LastOfPeriod(prefix, column)
    IN  IF last_receipt # None
        THEN IF Parses(AfterLastDash(last_receipt))
             THEN prefix \o FormatD(ParseInt(AfterLastDash(last_receipt)) + 1, 4)
             ELSE prefix \o FormatD(1, 4)
        ELSE prefix \o FormatD(1, 4)

(***************************************************************************)
(* Roles and the module access matrix.                                     *)
(***************************************************************************)
ROLE_CHOICES == {"director", "lab_manager", "office_staff", "technician"}

\* A role value outside ROLE_CHOICES (the column accepts any short string).
OtherRole == "intern"

Modules == {"sales", "operations", "pricing", "finance", "config"}

\* A module name no matrix lists.
OtherModule == "reports"

\* The matrix with the rows the test suite expects.
CanAccessMatrix_Tests(r) ==
    CASE r = "director" -> <<"sales", "operations", "pricing", "finance", "config">>
      [] r = "lab_manager" -> <<"sales", "operations", "pricing", "finance", "config">>
      [] r = "office_staff" -> <<"sales", "pricing", "finance">>
      [] r = "technician" -> <<"operations", "pricing">>
      [] OTHER -> <<>>

\* The matrix of can_access_module; a role it does not list gets [].
CanAccessMatrix(r) ==
    CASE r = "director" -> <<"sales", "operations", "pricing", "finance", "config">>
      [] r = "lab_manager" -> <<"sales", "operations", "pricing", "finance">>
      [] r = "office_staff" -> <<"sales", "operations", "finance">>
      [] r = "technician" -> <<"operations">>
      [] OTHER -> <<>>

can_access_module(r, module_name) ==
    \E i \in 1..Len(CanAccessMatrix(r)) : CanAccessMatrix(r)[i] = module_name

\* The second copy with a default row for the roles it does not list.
AccessibleMatrix_Default(r) ==
    CASE r = "director" -> <<"sales", "operations", "pricing", "finance", "config">>
      [] r = "lab_manager" -> <<"sales", "operations", "pricing", "finance">>
      [] r = "office_staff" -> <<"sales", "operations", "finance">>
      [] r = "technician" -> <<"operations">>
      [] OTHER -> <<"operations">>

\* The matrix of get_accessible_modules, a second copy in the source.
AccessibleMatrix(r) ==
    CASE r = "director" -> <<"sales", "operations", "pricing", "finance", "config">>
      [] r = "lab_manager" -> <<"sales", "operations", "pricing", "finance">>
      [] r = "office_staff" -> <<"sales", "operations", "finance">>
      [] r = "technician" -> <<"operations">>
      [] OTHER -> <<>>

get_accessible_modules(r) == AccessibleMatrix(r)

(***************************************************************************)
(* The database and the state of the requests.                             *)
(***************************************************************************)
VARIABLES
    now,        \* the clock
    role,       \* User.role of every user
    clients,    \* the Client table; a row's position is its primary key
    samples,    \* the Sample table; a row's position is its primary key
    history,    \* the SampleStatusHistory rows of every sample, in insertion order
    jobs,       \* the Job table
    receipts,   \* the SampleReceiptForm table with its samples relation
    edits,      \* how many manual status edits were made (bounds the model)
    reqs,       \* the requests in flight, where requests overlap
    ret         \* what the last call returned

vars == <<now, role, clients, samples, history, jobs, receipts, edits, reqs, ret>>

Users == {"dir", "tech1", "tech2"}

\* The staff the workflow specifications run with.
StaffRole == [u \in Users |->
    IF u = "dir" THEN "director" ELSE "technician"]

\* The catalogue of active test items.
TestItems == {"slump"}

SAMPLE_STATUS == {"received", "in_progress", "testing", "completed",
                  "reported", "cancelled"}

JOB_STATUS == {"pending", "assigned", "in_progress", "completed",
               "on_hold", "cancelled"}

\* A DateTimeField that is NULL, and one that holds time t.
NullDate == <<>>

DateOf(t) == <<t>>

\* The slots of requests that may overlap.
ReqIds == {"a", "b"}

IdleReq == [pc |-> "idle", user |-> "dir", data |-> <<>>]

Ret(op, user, target, ok, info) ==
    [op |-> op, user |-> user, target |-> target, ok |-> ok, info |-> info]

NoRet == Ret("none", "dir", 0, FALSE, "")

SampleIds == {samples[i].sample_id : i \in 1..Len(samples)}

ClientRefs == {samples[i].client_reference : i \in 1..Len(samples)}

JobIds == {jobs[i].job_id : i \in 1..Len(jobs)}

ReceiptNumbers == {receipts[i].receipt_number : i \in 1..Len(receipts)}

\* The identifiers held by requests that generated them and have not yet
\* inserted their row.
HeldSampleIds ==
    {reqs[r].data.row.sample_id : r \in {q \in ReqIds : reqs[q].pc = "sample_generated"}}

HeldClientRefs ==
    {reqs[r].data.row.client_reference :
        r \in {q \in ReqIds : reqs[q].pc = "sample_generated"}}

\* A save() whose generators also see the identifiers other requests hold,
\* as they would if generating and inserting were one transaction.
NewSampleRow_Reserving(tests, client) ==
    [sample_id |-> generate_sample_id(SampleIds \cup HeldSampleIds, now),
     client_reference |-> generate_client_reference(ClientRefs \cup HeldClientRefs, now),
     client |-> client,
     status |-> "received",
     tests |-> tests]

\* Sample.objects.create(...)/sample.save() of a new row: the two generated
\* identifiers; sample_id is unique=True, client_reference is not.
NewSampleRow(tests, client) ==
    [sample_id |-> generate_sample_id(SampleIds, now),
     client_reference |-> generate_client_reference(ClientRefs, now),
     client |-> client,
     status |-> "received",
     tests |-> tests]

\* HistoryRow with the two statuses exchanged.
HistoryRow_Swapped(old, new, user) ==
    [old_status |-> new, new_status |-> old, changed_by |-> user]

HistoryRow(old, new, user) ==
    [old_status |-> old, new_status |-> new, changed_by |-> user]

\* AddHistory that keeps only the latest row of the sample.
AddHistory_Overwrite(h, s, row) == [h EXCEPT ![s] = <<row>>]

\* SampleStatusHistory.objects.create(sample=s, ...)
AddHistory(h, s, row) == [h EXCEPT ![s] = Append(@, row)]

check_operations_access(u) == can_access_module(role[u], "operations")

check_job_creation_access(u) ==
    role[u] \in {"director", "lab_manager", "office_staff"}

(***************************************************************************)
(* Intake.                                                                 *)
(***************************************************************************)
\* What .first() and a blank ModelChoiceField give for a Client: no row.
NoClient == 0

ClientNames == {"acme"}

\* Client.objects.create(name=...): is_active defaults to True.
ClientRow(name) == [name |-> name, is_active |-> TRUE]

\* SampleIntakeForm.is_valid(): at least one requested test; existing_client
\* blank or a row of Client.objects.filter(is_active=True); clean() refuses
\* the choice "existing" with no client selected.
SampleIntakeFormValid(tests, posted) ==
    /\ tests # {}
    /\ \/ posted.existing_client = NoClient
       \/ /\ posted.existing_client \in 1..Len(clients)
          /\ clients[posted.existing_client].is_active
    /\ posted.client_choice = "existing" => posted.existing_client # NoClient

\* The client handling of new_sample_intake: the Client table it leaves and
\* the Client the sample gets, ok = FALSE where the view re-renders the form.
NewIntakeClient(posted) ==
    IF posted.client_choice = "new" /\ posted.name # ""
    THEN [ok |-> TRUE, table |-> Append(clients, ClientRow(posted.name)),
          client |-> Len(clients) + 1]
    ELSE IF posted.client_choice = "existing"
    THEN [ok |-> TRUE, table |-> clients, client |-> posted.existing_client]
    ELSE [ok |-> FALSE, table |-> clients, client |-> NoClient]

\* Client.objects.get_or_create(name=client_name, defaults=...) of
\* quick_sample_intake; get() raises when several rows carry the name.
QuickIntakeClient(client_name) ==
    LET named == {c \in 1..Len(clients) : clients[c].name = client_name}
    IN  IF named = {}
        THEN [ok |-> TRUE, table |-> Append(clients, ClientRow(client_name)),
              client |-> Len(clients) + 1]
        ELSE IF Cardinality(named) = 1
        THEN [ok |-> TRUE, table |-> clients, client |-> CHOOSE c \in named : TRUE]
        ELSE [ok |-> FALSE, table |-> clients, client |-> NoClient]

\* IntakeSave with a history row that gives the new status as the old one too.
IntakeSave_OldStatus(op, u, tests, client) ==
    LET row == NewSampleRow(tests, client)
    IN  IF row.sample_id \in SampleIds
        THEN /\ ret' = Ret(op, u, 0, FALSE, "IntegrityError")
             /\ UNCHANGED <<samples, history>>
        ELSE /\ samples' = Append(samples, row)
             /\ history' = Append(history, <<HistoryRow(row.status, row.status, u)>>)
             /\ ret' = Ret(op, u, Len(samples) + 1, TRUE, "")

\* sample.save() and the history row of the two intake views.  The row is
\* refused when its sample_id exists (unique=True); nothing is rolled back
\* then.
IntakeSave(op, u, tests, client) ==
    LET row == NewSampleRow(tests, client)
    IN  IF row.sample_id \in SampleIds
        THEN /\ ret' = Ret(op, u, 0, FALSE, "IntegrityError")
             /\ UNCHANGED <<samples, history>>
        ELSE /\ samples' = Append(samples, row)
             /\ history' = Append(history, <<HistoryRow("", row.status, u)>>)
             /\ ret' = Ret(op, u, Len(samples) + 1, TRUE, "")

new_sample_intake(u, tests, posted) ==
    /\ IF ~check_operations_access(u)
       THEN /\ ret' = Ret("new_sample_intake", u, 0, FALSE, "PermissionDenied")
            /\ UNCHANGED <<clients, samples, history>>
       ELSE IF ~SampleIntakeFormValid(tests, posted)
       THEN /\ ret' = Ret("new_sample_intake", u, 0, FALSE, "invalid form")
            /\ UNCHANGED <<clients, samples, history>>
       ELSE IF ~NewIntakeClient(posted).ok
       THEN /\ ret' = Ret("new_sample_intake", u, 0, FALSE, "invalid client")
            /\ UNCHANGED <<clients, samples, history>>
       ELSE /\ clients' = NewIntakeClient(posted).table
            /\ IntakeSave("new_sample_intake", u, tests,
                          NewIntakeClient(posted).client)
    /\ UNCHANGED <<now, role, jobs, receipts, edits, reqs>>

quick_sample_intake(u, client_name) ==
    /\ IF ~check_operations_access(u)
       THEN /\ ret' = Ret("quick_sample_intake", u, 0, FALSE, "PermissionDenied")
            /\ UNCHANGED <<clients, samples, history>>
       ELSE IF ~QuickIntakeClient(client_name).ok
       THEN /\ ret' = Ret("quick_sample_intake", u, 0, FALSE,
                          "MultipleObjectsReturned")
            /\ UNCHANGED <<clients, samples, history>>
       ELSE /\ clients' = QuickIntakeClient(client_name).table
            /\ IntakeSave("quick_sample_intake", u, {},
                          QuickIntakeClient(client_name).client)
    /\ UNCHANGED <<now, role, jobs, receipts, edits, reqs>>

add_tests_to_sample(u, s, test_item) ==
    /\ s \in 1..Len(samples)
    /\ IF ~check_operations_access(u)
       THEN /\ ret' = Ret("add_tests_to_sample", u, s, FALSE, "PermissionDenied")
            /\ UNCHANGED samples
       ELSE IF test_item \in samples[s].tests
       THEN /\ ret' = Ret("add_tests_to_sample", u, s, FALSE, "already assigned")
            /\ UNCHANGED samples
       ELSE /\ samples' = [samples EXCEPT ![s].tests = @ \cup {test_item}]
            /\ ret' = Ret("add_tests_to_sample", u, s, TRUE, "")
    /\ UNCHANGED <<now, role, clients, history, jobs, receipts, edits, reqs>>

(***************************************************************************)
(* Manual status edit.                                                     *)
(***************************************************************************)
\* SampleStatusUpdateForm(request.POST, instance=sample).is_valid(): a model
\* form's validation writes the cleaned fields to the instance it was given,
\* so after a valid form the in-memory sample already carries the posted
\* status.  The row in the database is written by status_form.save().
StatusFormValid(posted) == posted \in SAMPLE_STATUS

InstanceAfterIsValid(sample, posted) ==
    IF StatusFormValid(posted) THEN [sample EXCEPT !.status = posted] ELSE sample

\* sample_detail that lets a status only move forward in the order of
\* STATUS_CHOICES and never out of reported or cancelled.
sample_detail_Ordered(u, s, posted) ==
    LET rank(st) == CASE st = "received" -> 1 [] st = "in_progress" -> 2
                      [] st = "testing" -> 3 [] st = "completed" -> 4
                      [] st = "reported" -> 5 [] st = "cancelled" -> 6
                      [] OTHER -> 0
    IN  /\ s \in 1..Len(samples)
        /\ edits < MaxEdits
        /\ edits' = edits + 1
        /\ IF ~check_operations_access(u)
           THEN /\ ret' = Ret("sample_detail", u, s, FALSE, "PermissionDenied")
                /\ UNCHANGED <<samples, history>>
           ELSE IF \/ ~StatusFormValid(posted)
                   \/ rank(posted) < rank(samples[s].status)
                   \/ samples[s].status \in {"reported", "cancelled"}
           THEN /\ ret' = Ret("sample_detail", u, s, FALSE, "invalid form")
                /\ UNCHANGED <<samples, history>>
           ELSE LET sample == InstanceAfterIsValid(samples[s], posted)
                    old_status == sample.status
                IN  /\ samples' = [samples EXCEPT ![s] = sample]
                    /\ history' = AddHistory(history, s,
                           HistoryRow(old_status, sample.status, u))
                    /\ ret' = Ret("sample_detail", u, s, TRUE, "")
        /\ UNCHANGED <<now, role, clients, jobs, receipts, reqs>>

sample_detail(u, s, posted) ==
    /\ s \in 1..Len(samples)
    /\ edits < MaxEdits
    /\ edits' = edits + 1
    /\ IF ~check_operations_access(u)
       THEN /\ ret' = Ret("sample_detail", u, s, FALSE, "PermissionDenied")
            /\ UNCHANGED <<samples, history>>
       ELSE IF ~StatusFormValid(posted)
       THEN /\ ret' = Ret("sample_detail", u, s, FALSE, "invalid form")
            /\ UNCHANGED <<samples, history>>
       ELSE LET sample == InstanceAfterIsValid(samples[s], posted)
                old_status == sample.status
            IN  /\ samples' = [samples EXCEPT ![s] = sample]
                /\ history' = AddHistory(history, s,
                       HistoryRow(old_status, sample.status, u))
                /\ ret' = Ret("sample_detail", u, s, TRUE, "")
    /\ UNCHANGED <<now, role, clients, jobs, receipts, reqs>>


(***************************************************************************)
(* The Job methods.  Each is the whole method as a function of the         *)
(* database: the tables it leaves behind (the Job's own update, the parent *)
(* Sample, the history) and the value it returns.                          *)
(***************************************************************************)
MethodResult(jobs_, samples_, history_, result) ==
    [jobs |-> jobs_, samples |-> samples_, history |-> history_, result |-> result]

\* start_work with on_hold added to the statuses it starts from.
start_work_FromHold(j, user) ==
    LET s == jobs[j].sample
    IN  IF jobs[j].status \in {"assigned", "pending", "on_hold"}
        THEN IF samples[s].status \in {"received", "assigned"}
             THEN MethodResult(
                    [jobs EXCEPT ![j].status = "in_progress",
                                 ![j].started_date = DateOf(now)],
                    [samples EXCEPT ![s].status = "in_progress"],
                    AddHistory(history, s,
                        HistoryRow(samples[s].status, "in_progress", user)),
                    TRUE)
             ELSE MethodResult(
                    [jobs EXCEPT ![j].status = "in_progress",
                                 ![j].started_date = DateOf(now)],
                    samples, history, TRUE)
        ELSE MethodResult(jobs, samples, history, FALSE)

start_work(j, user) ==
    LET s == jobs[j].sample
    IN  IF jobs[j].status \in {"assigned", "pending"}
        THEN IF samples[s].status \in {"received", "assigned"}
             THEN MethodResult(
                    [jobs EXCEPT ![j].status = "in_progress",
                                 ![j].started_date = DateOf(now)],
                    [samples EXCEPT ![s].status = "in_progress"],
                    AddHistory(history, s,
                        HistoryRow(samples[s].status, "in_progress", user)),
                    TRUE)
             ELSE MethodResult(
                    [jobs EXCEPT ![j].status = "in_progress",
                                 ![j].started_date = DateOf(now)],
                    samples, history, TRUE)
        ELSE MethodResult(jobs, samples, history, FALSE)

\* complete_job never finding the Sample's Jobs all done.
AllJobsCompleted_Never(j) == FALSE

\* Job.objects.filter(sample=..., status__in=['assigned', 'in_progress',
\* 'pending']).exclude(id=self.id).exists(), negated.
AllJobsCompleted(j) ==
    ~\E k \in 1..Len(jobs) :
        /\ k # j
        /\ jobs[k].sample = jobs[j].sample
        /\ jobs[k].status \in {"assigned", "in_progress", "pending"}

\* complete_job that moves the Sample to testing whatever its status is.
complete_job_AnySample(j, user) ==
    LET s == jobs[j].sample
    IN  IF jobs[j].status = "in_progress"
        THEN IF AllJobsCompleted(j)
             THEN MethodResult(
                    [jobs EXCEPT ![j].status = "completed",
                                 ![j].completed_date = DateOf(now)],
                    [samples EXCEPT ![s].status = "testing"],
                    AddHistory(history, s,
                        HistoryRow(samples[s].status, "testing", user)),
                    TRUE)
             ELSE MethodResult(
                    [jobs EXCEPT ![j].status = "completed",
                                 ![j].completed_date = DateOf(now)],
                    samples, history, TRUE)
        ELSE MethodResult(jobs, samples, history, FALSE)

complete_job(j, user) ==
    LET s == jobs[j].sample
    IN  IF jobs[j].status = "in_progress"
        THEN IF AllJobsCompleted(j) /\ samples[s].status = "in_progress"
             THEN MethodResult(
                    [jobs EXCEPT ![j].status = "completed",
                                 ![j].completed_date = DateOf(now)],
                    [samples EXCEPT ![s].status = "testing"],
                    AddHistory(history, s,
                        HistoryRow(samples[s].status, "testing", user)),
                    TRUE)
             ELSE MethodResult(
                    [jobs EXCEPT ![j].status = "completed",
                                 ![j].completed_date = DateOf(now)],
                    samples, history, TRUE)
        ELSE MethodResult(jobs, samples, history, FALSE)

\* put_on_hold writing the note before it looks at the status.
put_on_hold_NoteFirst(j, user, notes) ==
    LET noted == [jobs EXCEPT ![j].notes =
                     IF notes # "" THEN Append(@, [at |-> now, text |-> notes]) ELSE @]
    IN  IF jobs[j].status \in {"assigned", "in_progress"}
        THEN MethodResult([noted EXCEPT ![j].status = "on_hold"], samples, history, TRUE)
        ELSE MethodResult(noted, samples, history, FALSE)

\* notes is the hold note posted ("" for none); the notes column is the
\* sequence of the entries appended to it, each with its timestamp.
put_on_hold(j, user, notes) ==
    IF jobs[j].status \in {"assigned", "in_progress"}
    THEN MethodResult(
            [jobs EXCEPT ![j].status = "on_hold",
                         ![j].notes = IF notes # ""
                                      THEN Append(@, [at |-> now, text |-> notes])
                                      ELSE @],
            samples, history, TRUE)
    ELSE MethodResult(jobs, samples, history, FALSE)

\* resume_work that stamps started_date at every resume.
resume_work_Restamps(j, user) ==
    IF jobs[j].status = "on_hold"
    THEN MethodResult(
            [jobs EXCEPT ![j].status = "in_progress",
                         ![j].started_date = DateOf(now)],
            samples, history, TRUE)
    ELSE MethodResult(jobs, samples, history, FALSE)

\* resume_work that never sets started_date.
resume_work_NoStart(j, user) ==
    IF jobs[j].status = "on_hold"
    THEN MethodResult([jobs EXCEPT ![j].status = "in_progress"],
                      samples, history, TRUE)
    ELSE MethodResult(jobs, samples, history, FALSE)

\* resume_work that also reopens a completed Job.
resume_work_Reopens(j, user) ==
    IF jobs[j].status \in {"on_hold", "completed"}
    THEN MethodResult(
            [jobs EXCEPT ![j].status = "in_progress",
                         ![j].started_date =
                            IF @ = NullDate THEN DateOf(now) ELSE @],
            samples, history, TRUE)
    ELSE MethodResult(jobs, samples, history, FALSE)

resume_work(j, user) ==
    IF jobs[j].status = "on_hold"
    THEN MethodResult(
            [jobs EXCEPT ![j].status = "in_progress",
                         ![j].started_date =
                            IF @ = NullDate THEN DateOf(now) ELSE @],
            samples, history, TRUE)
    ELSE MethodResult(jobs, samples, history, FALSE)

\* The tables a method call leaves behind, written back.
Commit(r) ==
    /\ jobs' = r.jobs
    /\ samples' = r.samples
    /\ history' = r.history

\* assign_to_technician that does not stamp assigned_date.
assign_to_technician_NoDate(job, technician) ==
    [job EXCEPT !.assigned_to = technician,
                !.status = "assigned"]

\* job.assign_to_technician(technician, due_date) applied to a Job row.
assign_to_technician(job, technician) ==
    [job EXCEPT !.assigned_to = technician,
                !.assigned_date = DateOf(now),
                !.status = "assigned"]

(***************************************************************************)
(* Job creation and the technician's status updates.                       *)
(***************************************************************************)
\* JobCreateForm.is_valid(): a technician is chosen and a non-empty subset
\* of the sample's requested tests.
JobFormValid(s, technician, assigned_tests) ==
    /\ technician \in Users
    /\ role[technician] = "technician"
    /\ assigned_tests # {}
    /\ assigned_tests \subseteq samples[s].tests

\* create_job without the requested_tests.exists() check of lines 790-793.
HasRequestedTests_Skipped(s) == TRUE

\* sample.requested_tests.exists()
HasRequestedTests(s) == samples[s].tests # {}

\* Job.objects.create(..., status='assigned'): Job.save() generates job_id.
NewJobRow(s, technician) ==
    [job_id |-> generate_job_id(JobIds, now),
     sample |-> s,
     assigned_to |-> technician,
     status |-> "assigned",
     assigned_date |-> NullDate,
     started_date |-> NullDate,
     completed_date |-> NullDate,
     notes |-> <<>>]

\* create_job that leaves the Sample as it is.
create_job_LeavesSample(u, s, technician, assigned_tests) ==
    /\ s \in 1..Len(samples)
    /\ IF ~check_job_creation_access(u)
       THEN /\ ret' = Ret("create_job", u, s, FALSE, "PermissionDenied")
            /\ UNCHANGED jobs
       ELSE IF ~HasRequestedTests(s)
       THEN /\ ret' = Ret("create_job", u, s, FALSE, "no requested tests")
            /\ UNCHANGED jobs
       ELSE IF ~JobFormValid(s, technician, assigned_tests)
       THEN /\ ret' = Ret("create_job", u, s, FALSE, "invalid form")
            /\ UNCHANGED jobs
       ELSE LET job == NewJobRow(s, technician)
            IN  IF job.job_id \in JobIds
                THEN /\ ret' = Ret("create_job", u, s, FALSE, "IntegrityError")
                     /\ UNCHANGED jobs
                ELSE /\ jobs' = Append(jobs, assign_to_technician(job, job.assigned_to))
                     /\ ret' = Ret("create_job", u, s, TRUE, "")
    /\ UNCHANGED <<now, role, clients, samples, history, receipts, edits, reqs>>

create_job(u, s, technician, assigned_tests) ==
    /\ s \in 1..Len(samples)
    /\ IF ~check_job_creation_access(u)
       THEN /\ ret' = Ret("create_job", u, s, FALSE, "PermissionDenied")
            /\ UNCHANGED <<jobs, samples, history>>
       ELSE IF ~HasRequestedTests(s)
       THEN /\ ret' = Ret("create_job", u, s, FALSE, "no requested tests")
            /\ UNCHANGED <<jobs, samples, history>>
       ELSE IF ~JobFormValid(s, technician, assigned_tests)
       THEN /\ ret' = Ret("create_job", u, s, FALSE, "invalid form")
            /\ UNCHANGED <<jobs, samples, history>>
       ELSE LET job == NewJobRow(s, technician)
            IN  IF job.job_id \in JobIds
                THEN /\ ret' = Ret("create_job", u, s, FALSE, "IntegrityError")
                     /\ UNCHANGED <<jobs, samples, history>>
                ELSE /\ jobs' = Append(jobs, assign_to_technician(job, job.assigned_to))
                     /\ IF samples[s].status = "received"
                        THEN /\ samples' = [samples EXCEPT ![s].status = "in_progress"]
                             /\ history' = AddHistory(history, s,
                                    HistoryRow("received", "in_progress", u))
                        ELSE UNCHANGED <<samples, history>>
                     /\ ret' = Ret("create_job", u, s, TRUE, "")
    /\ UNCHANGED <<now, role, clients, receipts, edits, reqs>>

JobActions == {"start", "complete", "hold", "resume", "other"}

\* The hold_notes a technician may post with action=hold.
HoldNotes == {"", "waiting for equipment"}

\* update_job_status without the check that the Job is assigned to the user.
update_job_status_AnyTechnician(u, j, action, hold_notes) ==
    /\ j \in 1..Len(jobs)
    /\ IF ~check_operations_access(u) \/ role[u] # "technician"
       THEN /\ ret' = Ret("update_job_status", u, j, FALSE, "PermissionDenied")
            /\ UNCHANGED <<jobs, samples, history>>
       ELSE IF action \notin {"start", "complete", "hold", "resume"}
       THEN /\ ret' = Ret("update_job_status", u, j, FALSE, "Invalid action")
            /\ UNCHANGED <<jobs, samples, history>>
       ELSE LET r == CASE action = "start" -> start_work(j, u)
                       [] action = "complete" -> complete_job(j, u)
                       [] action = "hold" -> put_on_hold(j, u, hold_notes)
                       [] action = "resume" -> resume_work(j, u)
            IN  /\ Commit(r)
                /\ ret' = Ret("update_job_status", u, j, r.result, action)
    /\ UNCHANGED <<now, role, clients, receipts, edits, reqs>>

update_job_status(u, j, action, hold_notes) ==
    /\ j \in 1..Len(jobs)
    /\ IF ~check_operations_access(u) \/ role[u] # "technician"
       THEN /\ ret' = Ret("update_job_status", u, j, FALSE, "PermissionDenied")
            /\ UNCHANGED <<jobs, samples, history>>
       ELSE IF jobs[j].assigned_to # u
       THEN /\ ret' = Ret("update_job_status", u, j, FALSE, "not assigned")
            /\ UNCHANGED <<jobs, samples, history>>
       ELSE IF action \notin {"start", "complete", "hold", "resume"}
       THEN /\ ret' = Ret("update_job_status", u, j, FALSE, "Invalid action")
            /\ UNCHANGED <<jobs, samples, history>>
       ELSE LET r == CASE action = "start" -> start_work(j, u)
                       [] action = "complete" -> complete_job(j, u)
                       [] action = "hold" -> put_on_hold(j, u, hold_notes)
                       [] action = "resume" -> resume_work(j, u)
            IN  /\ Commit(r)
                /\ ret' = Ret("update_job_status", u, j, r.result, action)
    /\ UNCHANGED <<now, role, clients, receipts, edits, reqs>>

(***************************************************************************)
(* Sample receipt forms.                                                   *)
(***************************************************************************)
\* The NULL that values_list('samples__id') yields for a receipt form without
\* samples (primary keys start at 1).
NullId == 0

\* SampleReceiptForm.objects.values_list('samples__id', flat=True).distinct()
SamplesWithReceipts ==
    UNION {IF receipts[i].samples = {} THEN {NullId} ELSE receipts[i].samples :
              i \in 1..Len(receipts)}

\* The queryset SampleReceiptFormForm.__init__ gives the samples field:
\* received samples, less those the subquery lists.  It is evaluated by the
\* database when the form is validated, and there id NOT IN (subquery) is
\* true of no row once the subquery holds a NULL.
ReceiptCandidates ==
    {s \in 1..Len(samples) :
        /\ samples[s].status = "received"
        /\ s \notin SamplesWithReceipts
        /\ NullId \notin SamplesWithReceipts}

\* The form is valid when at least one sample is selected and every selected
\* sample is in the field's queryset.
ReceiptFormValid(selected) == selected # {} /\ selected \subseteq ReceiptCandidates

create_receipt_form(u, selected) ==
    /\ selected \subseteq 1..Len(samples)
    /\ IF ~check_operations_access(u)
       THEN /\ ret' = Ret("create_receipt_form", u, 0, FALSE, "PermissionDenied")
            /\ UNCHANGED receipts
       ELSE IF ~ReceiptFormValid(selected)
       THEN /\ ret' = Ret("create_receipt_form", u, 0, FALSE, "invalid form")
            /\ UNCHANGED receipts
       ELSE LET number == generate_receipt_number(ReceiptNumbers, now)
            IN  IF number \in ReceiptNumbers
                THEN /\ ret' = Ret("create_receipt_form", u, 0, FALSE, "IntegrityError")
                     /\ UNCHANGED receipts
                ELSE /\ receipts' = Append(receipts,
                            [receipt_number |-> number, samples |-> selected])
                     /\ ret' = Ret("create_receipt_form", u, Len(receipts) + 1, TRUE, "")
    /\ UNCHANGED <<now, role, clients, samples, history, jobs, edits, reqs>>

(***************************************************************************)
(* The workflow, one request at a time.                                    *)
(***************************************************************************)
\* What a walk-in customer's intake posts: a new client by name.
WalkIn == [client_choice |-> "new", name |-> "acme", existing_client |-> NoClient]

\* What the intake of a sample of client c posts.
Returning(c) == [client_choice |-> "existing", name |-> "", existing_client |-> c]

\* The Client table of the specifications that start with stored samples.
StoredClients == <<ClientRow("acme")>>

Init ==
    /\ now = StartTime
    /\ role = StaffRole
    /\ clients = <<>>
    /\ samples = <<>>
    /\ history = <<>>
    /\ jobs = <<>>
    /\ receipts = <<>>
    /\ edits = 0
    /\ reqs = [r \in ReqIds |-> IdleReq]
    /\ ret = NoRet

NewSampleIntake ==
    /\ Len(samples) < MaxSamples
    /\ \E u \in Users, tests \in SUBSET TestItems :
          new_sample_intake(u, tests, WalkIn)

QuickSampleIntake ==
    /\ Len(samples) < MaxSamples
    /\ \E u \in Users, client_name \in ClientNames :
          quick_sample_intake(u, client_name)

AddTestsToSample ==
    \E u \in Users, s \in 1..Len(samples), t \in TestItems : add_tests_to_sample(u, s, t)

SampleDetail ==
    \E u \in Users, s \in 1..Len(samples), posted \in SAMPLE_STATUS \cup {"lost"} :
        sample_detail(u, s, posted)

CreateJob ==
    /\ Len(jobs) < MaxJobs
    /\ \E u \in Users, s \in 1..Len(samples), technician \in Users,
          assigned_tests \in SUBSET TestItems :
           create_job(u, s, technician, assigned_tests)

UpdateJobStatus ==
    \E u \in Users, j \in 1..Len(jobs), action \in JobActions :
        update_job_status(u, j, action, "")

Next ==
    \/ NewSampleIntake
    \/ QuickSampleIntake
    \/ AddTestsToSample
    \/ SampleDetail
    \/ CreateJob
    \/ UpdateJobStatus

Spec == Init /\ [][Next]_vars

(***************************************************************************)
(* Properties of the workflow.                                             *)
(***************************************************************************)
\* Sample s has at least one SampleTest row.
HasTests(s) == samples[s].tests # {}

\* The step in which complete_job completes Job j: the only one that takes a
\* Job from in_progress to completed.
CompletesJob(j) == jobs[j].status = "in_progress" /\ jobs'[j].status = "completed"

\* Every other Job of the Sample of j that is not cancelled is completed.
OthersCompleted(j) ==
    \A k \in 1..Len(jobs) :
        (k # j /\ jobs[k].sample = jobs[j].sample /\ jobs[k].status # "cancelled")
            => jobs[k].status = "completed"

\* C1: complete_job on a Job of Sample S moves S to testing if and only if
\* every other Job of S that is not cancelled is already completed.  Stated
\* for the calls that find S in_progress, the status complete_job requires
\* of S before it moves it.
C1_TestingIffLastJob ==
    [][\A j \in 1..Len(jobs) :
        (CompletesJob(j) /\ samples[jobs[j].sample].status = "in_progress")
            => ((samples'[jobs[j].sample].status = "testing") <=> OthersCompleted(j))]_vars

\* C2: every change of a Sample's status appends exactly one history row to
\* that Sample, with old_status the status before the change, new_status the
\* status after it and changed_by the acting user.
C2_OneRowPerChange ==
    [][\A s \in 1..Len(samples) :
        samples'[s].status # samples[s].status
            => /\ Len(history'[s]) = Len(history[s]) + 1
               /\ SubSeq(history'[s], 1, Len(history[s])) = history[s]
               /\ history'[s][Len(history'[s])] =
                      HistoryRow(samples[s].status, samples'[s].status, ret'.user)]_vars

\* C10: a create_job call for a Sample with no requested tests is turned away
\* by the view before the form is looked at, and writes nothing: the Job
\* table, the next job identifier, the Sample and its history are unchanged.
C10_NoTestsNoJob ==
    [][(ret'.op = "create_job" /\ ~HasTests(ret'.target))
        => /\ ~ret'.ok
           /\ ret'.info \in {"PermissionDenied", "no requested tests"}
           /\ jobs' = jobs
           /\ generate_job_id(JobIds', now') = generate_job_id(JobIds, now)
           /\ samples' = samples
           /\ history' = history]_vars

\* A create_job call by a user who may create jobs was turned away for a
\* Sample without requested tests.
C10_Witness ==
    /\ ret.op = "create_job"
    /\ ret.info = "no requested tests"
    /\ check_job_creation_access(ret.user)
    /\ ~HasTests(ret.target)
    /\ jobs = <<>>

(***************************************************************************)
(* The Job methods on their own: a Sample with its Jobs in any status the  *)
(* columns can hold, and the four methods called in any order while the    *)
(* clock advances.                                                         *)
(***************************************************************************)
\* The Job rows of a given position: any status, with the dates a Job in that
\* status carries.
StoredJobRows(k) ==
    {[job_id |-> JobPrefix(StartTime) \o FormatD(k, 4),
      sample |-> 1,
      assigned_to |-> "tech1",
      status |-> st,
      assigned_date |-> IF st = "pending" THEN NullDate ELSE DateOf(StartTime),
      started_date |-> started,
      completed_date |-> IF st = "completed" THEN DateOf(StartTime) ELSE NullDate,
      notes |-> <<>>] :
        st \in JOB_STATUS, started \in {NullDate, DateOf(StartTime)}}

StoredJob(row) ==
    /\ row.status \in {"pending", "assigned"} => row.started_date = NullDate
    /\ row.status \in {"in_progress", "completed"} => row.started_date # NullDate

StoredSampleRows ==
    {[sample_id |-> SamplePrefix(StartTime) \o FormatD(1, 4),
      client_reference |-> ClientRefPrefix(StartTime) \o FormatD(1, 4),
      client |-> 1,
      status |-> st,
      tests |-> TestItems] : st \in SAMPLE_STATUS}

InitJob ==
    /\ now = StartTime
    /\ role = StaffRole
    /\ clients = StoredClients
    /\ samples \in {<<row>> : row \in StoredSampleRows}
    /\ history = <<<<HistoryRow("", "received", "dir")>>>>
    /\ jobs \in {<<j1, j2>> : j1 \in {r \in StoredJobRows(1) : StoredJob(r)},
                              j2 \in {r \in StoredJobRows(2) : StoredJob(r)}}
    /\ receipts = <<>>
    /\ edits = 0
    /\ reqs = [r \in ReqIds |-> IdleReq]
    /\ ret = NoRet

\* A call of one of the methods on Job j by the technician it is assigned to.
MethodCall(name, j, r) ==
    /\ Commit(r)
    /\ ret' = Ret(name, jobs[j].assigned_to, j, r.result, "")
    /\ UNCHANGED <<now, role, clients, receipts, edits, reqs>>

CallStartWork ==
    \E j \in 1..Len(jobs) : MethodCall("start_work", j, start_work(j, jobs[j].assigned_to))

CallCompleteJob ==
    \E j \in 1..Len(jobs) : MethodCall("complete_job", j, complete_job(j, jobs[j].assigned_to))

CallPutOnHold ==
    \E j \in 1..Len(jobs), notes \in HoldNotes :
        /\ notes # "" => Len(jobs[j].notes) < MaxNotes
        /\ MethodCall("put_on_hold", j, put_on_hold(j, jobs[j].assigned_to, notes))

CallResumeWork ==
    \E j \in 1..Len(jobs) : MethodCall("resume_work", j, resume_work(j, jobs[j].assigned_to))

\* Time passes between two calls.
Tick ==
    /\ now < StartTime + MaxTicks
    /\ now' = now + 1
    /\ ret' = NoRet
    /\ UNCHANGED <<role, clients, samples, history, jobs, receipts, edits, reqs>>

NextJob ==
    \/ CallStartWork
    \/ CallCompleteJob
    \/ CallPutOnHold
    \/ CallResumeWork
    \/ Tick

SpecJob == InitJob /\ [][NextJob]_vars

\* C7: start_work returns true exactly from pending and assigned, and then
\* the Job is in_progress with started_date the time of the call; from any
\* other status it returns false and leaves Jobs, Samples and history alone.
C7_StartWork ==
    [][\A j \in 1..Len(jobs) :
        (ret'.op = "start_work" /\ ret'.target = j)
            => IF jobs[j].status \in {"pending", "assigned"}
               THEN /\ ret'.ok
                    /\ jobs'[j].status = "in_progress"
                    /\ jobs'[j].started_date = DateOf(now)
               ELSE /\ ~ret'.ok
                    /\ jobs' = jobs
                    /\ samples' = samples
                    /\ history' = history]_vars

\* start_work has just refused a Job that is on hold, after it started
\* another Job at the current time.
C7_Witness ==
    /\ ret.op = "start_work"
    /\ ~ret.ok
    /\ jobs[ret.target].status = "on_hold"
    /\ now > StartTime
    /\ \E k \in 1..Len(jobs) :
          jobs[k].status = "in_progress" /\ jobs[k].started_date = DateOf(now)

(***************************************************************************)
(* Module access: users of any role ask what they may access and open the *)
(* module dashboards.                                                      *)
(***************************************************************************)
\* The dashboards answer 200 (rendered), 302 (redirect to home) or 403.
sales_dashboard(u) ==
    IF ~can_access_module(role[u], "sales") THEN "302" ELSE "200"

operations_dashboard(u) ==
    IF ~check_operations_access(u) THEN "302" ELSE "200"

pricing_dashboard(u) ==
    IF ~can_access_module(role[u], "pricing") THEN "302" ELSE "200"

finance_dashboard(u) ==
    IF ~can_access_module(role[u], "finance") THEN "302" ELSE "200"

config_dashboard(u) ==
    IF ~can_access_module(role[u], "config") THEN "302"
    ELSE IF ~(role[u] = "director" \/ role[u] = "lab_manager") THEN "403"
    ELSE "200"

InitAccess ==
    /\ now = StartTime
    /\ role \in [Users -> ROLE_CHOICES \cup {OtherRole}]
    /\ clients = <<>>
    /\ samples = <<>>
    /\ history = <<>>
    /\ jobs = <<>>
    /\ receipts = <<>>
    /\ edits = 0
    /\ reqs = [r \in ReqIds |-> IdleReq]
    /\ ret = NoRet

UNCHANGED_ALL_BUT_RET ==
    UNCHANGED <<now, role, clients, samples, history, jobs, receipts, edits, reqs>>

CallCanAccessModule ==
    \E u \in Users, module_name \in Modules \cup {OtherModule} :
        /\ ret' = Ret("can_access_module", u, 0,
                      can_access_module(role[u], module_name), module_name)
        /\ UNCHANGED_ALL_BUT_RET

CallGetAccessibleModules ==
    \E u \in Users :
        /\ ret' = Ret("get_accessible_modules", u, 0, TRUE,
                      get_accessible_modules(role[u]))
        /\ UNCHANGED_ALL_BUT_RET

Answer(view, u, code) ==
    /\ ret' = Ret(view, u, 0, code = "200", code)
    /\ UNCHANGED_ALL_BUT_RET

OpenDashboard ==
    \E u \in Users :
        \/ Answer("sales_dashboard", u, sales_dashboard(u))
        \/ Answer("operations_dashboard", u, operations_dashboard(u))
        \/ Answer("pricing_dashboard", u, pricing_dashboard(u))
        \/ Answer("finance_dashboard", u, finance_dashboard(u))
        \/ Answer("config_dashboard", u, config_dashboard(u))

NextAccess ==
    \/ CallCanAccessModule
    \/ CallGetAccessibleModules
    \/ OpenDashboard

SpecAccess == InitAccess /\ [][NextAccess]_vars

\* The elements of a list.
Elements(list) == {list[i] : i \in 1..Len(list)}

\* The table of the specification: the modules each role is granted.
GrantTable(r) ==
    CASE r = "director" -> {"sales", "operations", "pricing", "finance", "config"}
      [] r = "lab_manager" -> {"sales", "operations", "pricing", "finance"}
      [] r = "office_staff" -> {"sales", "operations", "finance"}
      [] r = "technician" -> {"operations"}

\* The sets the test suite asserts.
TestSuiteTable(r) ==
    CASE r = "director" -> {"sales", "operations", "pricing", "finance", "config"}
      [] r = "lab_manager" -> {"sales", "operations", "pricing", "finance", "config"}
      [] r = "office_staff" -> {"sales", "pricing", "finance"}
      [] r = "technician" -> {"operations", "pricing"}

C9_MatchesTestSuite ==
    /\ (ret.op = "get_accessible_modules" /\ role[ret.user] \in ROLE_CHOICES)
          => Elements(ret.info) = TestSuiteTable(role[ret.user])
    /\ (ret.op = "can_access_module" /\ role[ret.user] \in ROLE_CHOICES)
          => (ret.info \in Modules
                => (ret.ok <=> ret.info \in TestSuiteTable(role[ret.user])))
    /\ (ret.op = "pricing_dashboard" /\ role[ret.user] \in ROLE_CHOICES)
          => ret.info = "200"

(***************************************************************************)
(* The identifier generators at work: rows are created one request at a    *)
(* time while the months pass.  The tables start empty or with the last    *)
(* row of a period in which SeedSeq identifiers were issued; a generator   *)
(* reads only the greatest identifier of the period, so the rows below it  *)
(* are left out.                                                           *)
(***************************************************************************)
\* The last sequence number that fits the four digits of the format.
SeedSeq == 10^4 - 1

SeedSampleRows ==
    {[sample_id |-> SamplePrefix(StartTime) \o FormatD(n, 4),
      client_reference |-> ClientRefPrefix(StartTime) \o FormatD(m, 4),
      client |-> 1,
      status |-> "received",
      tests |-> TestItems] : n \in {1, SeedSeq}, m \in {1, SeedSeq}}

SeedJobRow ==
    [job_id |-> JobPrefix(StartTime) \o FormatD(SeedSeq, 4),
     sample |-> 1,
     assigned_to |-> "tech1",
     status |-> "completed",
     assigned_date |-> DateOf(StartTime),
     started_date |-> DateOf(StartTime),
     completed_date |-> DateOf(StartTime),
     notes |-> <<>>]

SeedReceiptRow ==
    [receipt_number |-> ReceiptPrefix(StartTime) \o FormatD(SeedSeq, 4),
     samples |-> {1}]

InitGen ==
    /\ now = StartTime
    /\ role = StaffRole
    /\ samples \in {<<>>} \cup {<<row>> : row \in SeedSampleRows}
    /\ clients = IF samples = <<>> THEN <<>> ELSE StoredClients
    /\ history = [s \in 1..Len(samples) |-> <<HistoryRow("", "received", "dir")>>]
    /\ jobs \in IF samples = <<>> THEN {<<>>} ELSE {<<>>, <<SeedJobRow>>}
    /\ receipts \in IF samples = <<>> THEN {<<>>} ELSE {<<>>, <<SeedReceiptRow>>}
    /\ edits = 0
    /\ reqs = [r \in ReqIds |-> IdleReq]
    /\ ret = NoRet

GenIntake ==
    /\ Len(samples) < MaxRows
    /\ new_sample_intake("dir", TestItems,
                         IF clients = <<>> THEN WalkIn ELSE Returning(1))

GenCreateJob ==
    /\ Len(jobs) < MaxRows
    /\ \E s \in 1..Len(samples) : create_job("dir", s, "tech1", TestItems)

GenCreateReceiptForm ==
    /\ Len(receipts) < MaxRows
    /\ \E s \in 1..Len(samples) : create_receipt_form("dir", {s})

NextGen ==
    \/ GenIntake
    \/ GenCreateJob
    \/ GenCreateReceiptForm
    \/ Tick

SpecGen == InitGen /\ [][NextGen]_vars

\* The steps in which a view reached the save() that generates an identifier.
SavesSample ==
    /\ ret'.op \in {"new_sample_intake", "quick_sample_intake"}
    /\ ret'.ok \/ ret'.info = "IntegrityError"

SavesJob == ret'.op = "create_job" /\ (ret'.ok \/ ret'.info = "IntegrityError")

SavesReceipt ==
    ret'.op = "create_receipt_form" /\ (ret'.ok \/ ret'.info = "IntegrityError")

\* The identifier columns in the order the rows were created.
SampleIdColumn == [i \in 1..Len(samples) |-> samples[i].sample_id]

ClientRefColumn == [i \in 1..Len(samples) |-> samples[i].client_reference]

JobIdColumn == [i \in 1..Len(jobs) |-> jobs[i].job_id]

ReceiptNumberColumn == [i \in 1..Len(receipts) |-> receipts[i].receipt_number]

\* The sequence number an identifier carries after its period prefix.
SeqOf(id, prefix) == ParseInt(SubSeq(id, Len(prefix) + 1, Len(id)))

\* The positions of the identifiers of a period.
OfPeriod(column, prefix) == {i \in 1..Len(column) : StartsWith(column[i], prefix)}

Greatest(S) == CHOOSE n \in S : \A m \in S : m <= n

\* new continues the identifiers of column in the period of prefix: it has
\* the prefix and at least four digits, its number is one more than that of
\* the identifier created last in the period, and 1 when there is none.
Continues(column, prefix, new) ==
    /\ StartsWith(new, prefix)
    /\ Len(new) >= Len(prefix) + 4
    /\ IsNumeral(SubSeq(new, Len(prefix) + 1, Len(new)))
    /\ IF OfPeriod(column, prefix) = {}
       THEN SeqOf(new, prefix) = 1
       ELSE SeqOf(new, prefix) =
                SeqOf(column[Greatest(OfPeriod(column, prefix))], prefix) + 1

\* C3: each identifier generated for a creation continues the identifiers
\* of its kind: one more than the previous one of the period, padded to at
\* least four digits, and 0001 with the new prefix after the period changed.
C3_Sequential ==
    [][/\ SavesSample =>
            /\ Continues(SampleIdColumn, SamplePrefix(now),
                         generate_sample_id(SampleIds, now))
            /\ Continues(ClientRefColumn, ClientRefPrefix(now),
                         generate_client_reference(ClientRefs, now))
       /\ SavesJob =>
            Continues(JobIdColumn, JobPrefix(now), generate_job_id(JobIds, now))
       /\ SavesReceipt =>
            Continues(ReceiptNumberColumn, ReceiptPrefix(now),
                      generate_receipt_number(ReceiptNumbers, now))]_vars

\* new is not in the column, and once the period has used up its four-digit
\* numbers new carries the number after the greatest of the period.
GrowsPast(column, prefix, new) ==
    /\ \A i \in 1..Len(column) : column[i] # new
    /\ LET used == {SeqOf(column[i], prefix) : i \in OfPeriod(column, prefix)}
       IN  (used # {} /\ Greatest(used) >= SeedSeq)
               => SeqOf(new, prefix) = Greatest(used) + 1

\* C4: past 9999 the identifiers grow to five digits and stay unique: after
\* 9999 comes 10000, then 10001, and no generated identifier exists already.
C4_UniquePastOverflow ==
    [][/\ SavesSample =>
            /\ GrowsPast(SampleIdColumn, SamplePrefix(now),
                         generate_sample_id(SampleIds, now))
            /\ GrowsPast(ClientRefColumn, ClientRefPrefix(now),
                         generate_client_reference(ClientRefs, now))
       /\ SavesJob =>
            GrowsPast(JobIdColumn, JobPrefix(now), generate_job_id(JobIds, now))
       /\ SavesReceipt =>
            GrowsPast(ReceiptNumberColumn, ReceiptPrefix(now),
                      generate_receipt_number(ReceiptNumbers, now))]_vars

(***************************************************************************)
(* Overlapping requests.  Two requests are served at a time; each does its *)
(* database reads and writes one after the other with no transaction       *)
(* around them, so the steps of the two interleave.                        *)
(***************************************************************************)
Idle(r) == reqs[r].pc = "idle"

\* An intake up to the point where Sample.save() has generated the
\* identifiers and not yet inserted the row; last_sample is the row the
\* generator read.
intake_generate(r, op, u, tests, posted) ==
    /\ Idle(r)
    /\ LET found == IF op = "new_sample_intake"
                    THEN NewIntakeClient(posted)
                    ELSE QuickIntakeClient(posted.name)
       IN  IF ~check_operations_access(u)
           THEN /\ ret' = Ret(op, u, 0, FALSE, "PermissionDenied")
                /\ UNCHANGED <<clients, reqs>>
           ELSE IF op = "new_sample_intake" /\ ~SampleIntakeFormValid(tests, posted)
           THEN /\ ret' = Ret(op, u, 0, FALSE, "invalid form")
                /\ UNCHANGED <<clients, reqs>>
           ELSE IF ~found.ok
           THEN /\ ret' = Ret(op, u, 0, FALSE, "invalid client")
                /\ UNCHANGED <<clients, reqs>>
           ELSE /\ clients' = found.table
                /\ reqs' = [reqs EXCEPT ![r] =
                        [pc |-> "sample_generated", user |-> u,
                         data |-> [op |-> op,
                                   last_sample |->
                                       LastOfPeriod(SamplePrefix(now), SampleIds),
                                   row |-> NewSampleRow(tests, found.client)]]]
                /\ UNCHANGED ret
    /\ UNCHANGED <<now, role, samples, history, jobs, receipts, edits>>

\* super().save() and the rest of the intake view.
intake_insert(r) ==
    /\ reqs[r].pc = "sample_generated"
    /\ LET row == reqs[r].data.row
           op == reqs[r].data.op
           u == reqs[r].user
       IN  IF row.sample_id \in SampleIds
           THEN /\ ret' = Ret(op, u, 0, FALSE, "IntegrityError")
                /\ UNCHANGED <<samples, history>>
           ELSE /\ samples' = Append(samples, row)
                /\ history' = Append(history, <<HistoryRow("", row.status, u)>>)
                /\ ret' = Ret(op, u, Len(samples) + 1, TRUE, "")
    /\ reqs' = [reqs EXCEPT ![r] = IdleReq]
    /\ UNCHANGED <<now, role, clients, jobs, receipts, edits>>

\* create_receipt_form up to form.is_valid().
receipt_validate(r, u, selected) ==
    /\ Idle(r)
    /\ selected \subseteq 1..Len(samples)
    /\ IF ~check_operations_access(u)
       THEN /\ ret' = Ret("create_receipt_form", u, 0, FALSE, "PermissionDenied")
            /\ UNCHANGED reqs
       ELSE IF ~ReceiptFormValid(selected)
       THEN /\ ret' = Ret("create_receipt_form", u, 0, FALSE, "invalid form")
            /\ UNCHANGED reqs
       ELSE /\ reqs' = [reqs EXCEPT ![r] =
                    [pc |-> "receipt_valid", user |-> u,
                     data |-> [selected |-> selected]]]
            /\ UNCHANGED ret
    /\ UNCHANGED <<now, role, clients, samples, history, jobs, receipts, edits>>

\* srf.save() up to the generated receipt number.
receipt_generate(r) ==
    /\ reqs[r].pc = "receipt_valid"
    /\ reqs' = [reqs EXCEPT ![r].pc = "receipt_generated",
                            ![r].data = [selected |-> @.selected,
                                         number |-> generate_receipt_number(
                                                        ReceiptNumbers, now)]]
    /\ UNCHANGED <<now, role, clients, samples, history, jobs, receipts, edits, ret>>

\* The INSERT of srf.save(); the samples relation is still empty.
receipt_insert(r) ==
    /\ reqs[r].pc = "receipt_generated"
    /\ IF reqs[r].data.number \in ReceiptNumbers
       THEN /\ ret' = Ret("create_receipt_form", reqs[r].user, 0, FALSE, "IntegrityError")
            /\ reqs' = [reqs EXCEPT ![r] = IdleReq]
            /\ UNCHANGED receipts
       ELSE /\ receipts' = Append(receipts,
                    [receipt_number |-> reqs[r].data.number, samples |-> {}])
            /\ reqs' = [reqs EXCEPT ![r].pc = "receipt_saved",
                                    ![r].data = [selected |-> @.selected,
                                                 pk |-> Len(receipts) + 1]]
            /\ UNCHANGED ret
    /\ UNCHANGED <<now, role, clients, samples, history, jobs, edits>>

\* srf.samples.set(samples) and the redirect.
receipt_set_samples(r) ==
    /\ reqs[r].pc = "receipt_saved"
    /\ receipts' = [receipts EXCEPT ![reqs[r].data.pk].samples = reqs[r].data.selected]
    /\ ret' = Ret("create_receipt_form", reqs[r].user, reqs[r].data.pk, TRUE, "")
    /\ reqs' = [reqs EXCEPT ![r] = IdleReq]
    /\ UNCHANGED <<now, role, clients, samples, history, jobs, edits>>

IntakeGenerate ==
    /\ Len(samples) < MaxSamples
    /\ \E r \in ReqIds, u \in Users, tests \in SUBSET TestItems :
          \/ intake_generate(r, "new_sample_intake", u, tests, WalkIn)
          \/ intake_generate(r, "quick_sample_intake", u, {}, WalkIn)

IntakeInsert == \E r \in ReqIds : intake_insert(r)

ReceiptValidate ==
    /\ Len(receipts) < MaxReceipts
    /\ \E r \in ReqIds, u \in Users, selected \in SUBSET (1..Len(samples)) :
          receipt_validate(r, u, selected)

ReceiptGenerate == \E r \in ReqIds : receipt_generate(r)

ReceiptInsert == \E r \in ReqIds : receipt_insert(r)

ReceiptSetSamples == \E r \in ReqIds : receipt_set_samples(r)

NextRace ==
    \/ IntakeGenerate
    \/ IntakeInsert
    \/ ReceiptValidate
    \/ ReceiptGenerate
    \/ ReceiptInsert
    \/ ReceiptSetSamples

SpecRace == Init /\ [][NextRace]_vars

\* Two requests overlap in Sample.save(): both have generated their
\* identifiers and neither has inserted its row.
BothGenerated ==
    \A r \in ReqIds : reqs[r].pc = "sample_generated"

\* C5: generating an identifier and inserting the row are separate steps;
\* two creations of the same period that overlap between them and have read
\* the same greatest identifier hold the same next identifier.
C5_SameIdWhenOverlapping ==
    BothGenerated =>
        \A r, q \in ReqIds :
            reqs[r].data.last_sample = reqs[q].data.last_sample
                => reqs[r].data.row.sample_id = reqs[q].data.row.sample_id

\* Two overlapping intakes hold the same sample_id, not yet in the table.
C5_Witness ==
    /\ BothGenerated
    /\ reqs["a"].data.last_sample = reqs["b"].data.last_sample
    /\ reqs["a"].data.row.sample_id = reqs["b"].data.row.sample_id
    /\ reqs["a"].data.row.sample_id = SamplePrefix(now) \o FormatD(1, 4)
    /\ samples = <<>>

\* The receipt forms that reference Sample s.
ReceiptsOf(s) == {i \in 1..Len(receipts) : s \in receipts[i].samples}

\* C6: each Sample is referenced by at most one receipt form, whatever
\* receipt-form requests were made, overlapping ones included.
C6_OneReceiptPerSample ==
    \A s \in 1..Len(samples) : Cardinality(ReceiptsOf(s)) <= 1

(***************************************************************************)
(* Properties of the Job methods.                                          *)
(***************************************************************************)
\* The Job statuses each guarded operation is allowed from.
AllowedFrom(op) ==
    CASE op = "start_work" -> {"pending", "assigned"}
      [] op = "complete_job" -> {"in_progress"}
      [] op = "put_on_hold" -> {"assigned", "in_progress"}
      [] op = "resume_work" -> {"on_hold"}

GuardedOps == {"start_work", "complete_job", "put_on_hold", "resume_work"}

\* C11: a guarded operation called on a Job whose status is outside the
\* operation's allowed set returns false and changes nothing: not the Job
\* (status, dates, notes), not the Sample, not the history.
C11_RejectedNoEffect ==
    [][\A j \in 1..Len(jobs) :
        (ret'.op \in GuardedOps /\ ret'.target = j
            /\ jobs[j].status \notin AllowedFrom(ret'.op))
            => /\ ~ret'.ok
               /\ jobs' = jobs
               /\ samples' = samples
               /\ history' = history]_vars

\* put_on_hold was refused on a completed Job after time has passed.
C11_Witness ==
    /\ ret.op = "put_on_hold"
    /\ ~ret.ok
    /\ jobs[ret.target].status = "completed"
    /\ now > StartTime

(***************************************************************************)
(* The end-to-end scenario and the automatic transitions.                  *)
(***************************************************************************)
\* The step in which start_work starts Job j.
StartsJob(j) ==
    jobs[j].status \in {"pending", "assigned"} /\ jobs'[j].status = "in_progress"

\* Job j is the only Job of its Sample.
OnlyJob(j) == \A k \in 1..Len(jobs) : jobs[k].sample = jobs[j].sample => k = j

\* C12: a received Sample with requested tests gets exactly one Job, assigned
\* to technician T, and nobody edits the status by hand: T's start_work
\* leaves the Sample in_progress and T's later complete_job leaves it testing.
C12_Scenario ==
    [][\A j \in 1..Len(jobs) :
        (OnlyJob(j) /\ edits = 0 /\ ret'.user = jobs[j].assigned_to)
            => /\ StartsJob(j) => samples'[jobs[j].sample].status = "in_progress"
               /\ CompletesJob(j) => samples'[jobs[j].sample].status = "testing"]_vars

\* The scenario has run to its end: one Job, started and completed by its
\* technician, and the history of the Sample tells the three transitions.
C12_Witness ==
    /\ Len(jobs) = 1
    /\ edits = 0
    /\ jobs[1].status = "completed"
    /\ jobs[1].started_date # NullDate
    /\ samples[jobs[1].sample].status = "testing"
    /\ history[jobs[1].sample] =
          <<HistoryRow("", "received", history[jobs[1].sample][1].changed_by),
            HistoryRow("received", "in_progress", "dir"),
            HistoryRow("in_progress", "testing", jobs[1].assigned_to)>>

(***************************************************************************)
(* The generators over tables that hold identifiers the generators did not *)
(* issue: a Sample whose identifiers were typed into the admin site        *)
(* (SampleAdmin leaves sample_id and client_reference editable), Job and   *)
(* receipt rows loaded from an older numbering.                            *)
(***************************************************************************)
\* What follows the period prefix in such a row: a number of the format, a
\* lettered code, a dash before the number, a number without padding.
LegacySuffixes ==
    {<<"0", "0", "0", "7">>, <<"X", "0", "0", "1">>,
     <<"-", "0", "0", "1">>, <<"7">>}

LegacySampleRow(suffix) ==
    [sample_id |-> SamplePrefix(StartTime) \o suffix,
     client_reference |-> ClientRefPrefix(StartTime) \o suffix,
     client |-> 1,
     status |-> "received",
     tests |-> TestItems]

LegacyJobRow(suffix) ==
    [SeedJobRow EXCEPT !.job_id = JobPrefix(StartTime) \o suffix]

LegacyReceiptRow(suffix) ==
    [receipt_number |-> ReceiptPrefix(StartTime) \o suffix,
     samples |-> {1}]

InitLegacy ==
    /\ now = StartTime
    /\ role = StaffRole
    /\ \E suffix \in LegacySuffixes :
          /\ clients = StoredClients
          /\ samples = <<LegacySampleRow(suffix)>>
          /\ jobs \in {<<>>, <<LegacyJobRow(suffix)>>}
          /\ receipts \in {<<>>, <<LegacyReceiptRow(suffix)>>}
    /\ history = [s \in 1..Len(samples) |-> <<HistoryRow("", "received", "dir")>>]
    /\ edits = 0
    /\ reqs = [r \in ReqIds |-> IdleReq]
    /\ ret = NoRet

SpecLegacy == InitLegacy /\ [][NextGen]_vars

First == <<"0", "0", "0", "1">>

\* The generator finds no number to continue: the period has no identifier,
\* or int() raises on the characters it reads from the greatest one.
NoNumber(prefix, column) ==
    LET last == LastOfPeriod(prefix, column)
    IN  last = None \/ ~Parses(LastChars(last, 4))

NoReceiptNumber(prefix, column) ==
    LET last == LastOfPeriod(prefix, column)
    IN  last = None \/ ~Parses(AfterLastDash(last))

\* C13: when the period has no identifier, or the characters read from its
\* greatest identifier do not parse as a number, each generator returns the
\* period prefix followed by 0001, and the row that is saved carries it.
C13_FallbackToFirst ==
    [][/\ (SavesSample /\ NoNumber(SamplePrefix(now), SampleIds)) =>
            /\ generate_sample_id(SampleIds, now) = SamplePrefix(now) \o First
            /\ ret'.ok =>
                  samples'[Len(samples')].sample_id = SamplePrefix(now) \o First
       /\ (SavesSample /\ NoNumber(ClientRefPrefix(now), ClientRefs)) =>
            /\ generate_client_reference(ClientRefs, now) =
                  ClientRefPrefix(now) \o First
            /\ ret'.ok =>
                  samples'[Len(samples')].client_reference =
                      ClientRefPrefix(now) \o First
       /\ (SavesJob /\ NoNumber(JobPrefix(now), JobIds)) =>
            /\ generate_job_id(JobIds, now) = JobPrefix(now) \o First
            /\ ret'.ok => jobs'[Len(jobs')].job_id = JobPrefix(now) \o First
       /\ (SavesReceipt /\ NoReceiptNumber(ReceiptPrefix(now), ReceiptNumbers)) =>
            /\ generate_receipt_number(ReceiptNumbers, now) =
                  ReceiptPrefix(now) \o First
            /\ ret'.ok =>
                  receipts'[Len(receipts')].receipt_number =
                      ReceiptPrefix(now) \o First]_vars

\* A Sample was saved next to one whose typed identifier ends in characters
\* that int() rejects, and carries number 0001 of the same period.
C13_Witness ==
    /\ Len(samples) = 2
    /\ StartsWith(samples[1].sample_id, SamplePrefix(now))
    /\ ~Parses(LastChars(samples[1].sample_id, 4))
    /\ LexLess(samples[2].sample_id, samples[1].sample_id)
    /\ samples[2].sample_id = SamplePrefix(now) \o First
    /\ ret.op = "new_sample_intake" /\ ret.ok

(***************************************************************************)
(* Client management next to the intake.  client_delete reads whether the  *)
(* client has samples and then writes, two statements with no transaction  *)
(* around them; an intake may be served between the two.                   *)
(***************************************************************************)
MaxClients == 2

\* The samples taken in next to the client management.
MaxClientSamples == 2

check_client_management_access(u) ==
    role[u] \in {"office_staff", "lab_manager", "director"}

\* client_create with a valid ClientForm.
client_create(u, name) ==
    /\ IF ~check_client_management_access(u)
       THEN /\ ret' = Ret("client_create", u, 0, FALSE, "PermissionDenied")
            /\ UNCHANGED clients
       ELSE /\ clients' = Append(clients, ClientRow(name))
            /\ ret' = Ret("client_create", u, Len(clients) + 1, TRUE, "")
    /\ UNCHANGED <<now, role, samples, history, jobs, receipts, edits, reqs>>

\* client.samples.exists()
HasSamples(c) == \E s \in 1..Len(samples) : samples[s].client = c

\* client_delete up to and including client.samples.exists(); the request
\* has not returned yet.
client_delete_exists(r, u, c) ==
    /\ Idle(r)
    /\ c \in 1..Len(clients)
    /\ IF role[u] \notin {"lab_manager", "director"}
       THEN /\ ret' = Ret("client_delete", u, c, FALSE, "PermissionDenied")
            /\ UNCHANGED reqs
       ELSE /\ reqs' = [reqs EXCEPT ![r] =
                    [pc |-> "client_checked", user |-> u,
                     data |-> [client |-> c, has_samples |-> HasSamples(c)]]]
            /\ ret' = NoRet
    /\ UNCHANGED <<now, role, clients, samples, history, jobs, receipts, edits>>

\* client.delete(): the Client row goes, and by on_delete=CASCADE its
\* samples with their history rows, jobs and places on receipts.  The rows
\* behind a removed row move up, and the references to them with them.
DeleteClient(c) ==
    LET keptS == {s \in 1..Len(samples) : samples[s].client # c}
        keptJ == {j \in 1..Len(jobs) : jobs[j].sample \in keptS}
        PositionIn(S, s) == Cardinality({k \in S : k <= s})
        Nth(S, i) == CHOOSE s \in S : PositionIn(S, s) = i
    IN  /\ clients' = [i \in 1..(Len(clients) - 1) |->
                          clients[IF i < c THEN i ELSE i + 1]]
        /\ samples' = [i \in 1..Cardinality(keptS) |->
                          [samples[Nth(keptS, i)] EXCEPT
                              !.client = IF @ > c THEN @ - 1 ELSE @]]
        /\ history' = [i \in 1..Cardinality(keptS) |-> history[Nth(keptS, i)]]
        /\ jobs' = [i \in 1..Cardinality(keptJ) |->
                       [jobs[Nth(keptJ, i)] EXCEPT
                           !.sample = PositionIn(keptS, @)]]
        /\ receipts' = [i \in 1..Len(receipts) |->
                           [receipts[i] EXCEPT
                               !.samples = {PositionIn(keptS, s) : s \in @ \cap keptS}]]

\* The rest of client_delete: is_active = False and save() when exists()
\* answered yes, delete() otherwise.
client_delete_write(r) ==
    /\ reqs[r].pc = "client_checked"
    /\ LET c == reqs[r].data.client
           u == reqs[r].user
       IN  IF reqs[r].data.has_samples
           THEN /\ clients' = [clients EXCEPT ![c].is_active = FALSE]
                /\ ret' = Ret("client_delete", u, c, TRUE, "deactivated")
                /\ UNCHANGED <<samples, history, jobs, receipts>>
           ELSE /\ DeleteClient(c)
                /\ ret' = Ret("client_delete", u, c, TRUE, "deleted")
    /\ reqs' = [reqs EXCEPT ![r] = IdleReq]
    /\ UNCHANGED <<now, role, edits>>

\* One deletion is in flight at a time.
NextClient ==
    \/ /\ Len(clients) < MaxClients
       /\ \E u \in Users, name \in ClientNames : client_create(u, name)
    \/ /\ Len(samples) < MaxClientSamples
       /\ Len(clients) < MaxClients
       /\ \E u \in Users,
             posted \in {WalkIn} \cup {Returning(c) : c \in 0..Len(clients)} :
             new_sample_intake(u, TestItems, posted)
    \/ /\ Len(samples) < MaxClientSamples
       /\ \E u \in Users, client_name \in ClientNames :
             quick_sample_intake(u, client_name)
    \/ \E u \in Users, c \in 1..Len(clients) : client_delete_exists("a", u, c)
    \/ client_delete_write("a")

SpecClient == Init /\ [][NextClient]_vars

\* Every Sample is still there after the step.
SamplesRemain ==
    /\ Len(samples') = Len(samples)
    /\ \A s \in 1..Len(samples) : samples'[s].sample_id = samples[s].sample_id

\* C14: a confirmed client_delete of a Client that owns a Sample leaves the
\* Client row with is_active false and leaves every Sample; it removes the
\* Client row only when the Client owns no Sample.
C14_DeactivatesOwners ==
    [][(ret'.op = "client_delete" /\ ret'.ok) =>
          LET c == ret'.target
          IN  /\ SamplesRemain
              /\ IF HasSamples(c)
                 THEN clients' = [clients EXCEPT ![c].is_active = FALSE]
                 ELSE Len(clients') = Len(clients) - 1]_vars

\* The steps in which an intake view saved its Sample.
Intake == ret'.op \in {"new_sample_intake", "quick_sample_intake"} /\ ret'.ok

\* C15: a successful intake adds one Sample, in status received, with a
\* non-empty sample_id and client_reference, and with exactly one history row:
\* old_status empty, new_status received, changed_by the intake user.
C15_IntakeLeavesReceived ==
    [][Intake =>
          LET s == ret'.target
          IN  /\ s = Len(samples) + 1 /\ Len(samples') = s
              /\ samples'[s].status = "received"
              /\ samples'[s].sample_id # <<>>
              /\ samples'[s].client_reference # <<>>
              /\ history'[s] = <<HistoryRow("", "received", ret'.user)>>]_vars

\* A technician's quick intake has just saved a Sample.
C15_Witness ==
    /\ ret.op = "quick_sample_intake" /\ ret.ok /\ ret.user = "tech1"
    /\ samples[ret.target].status = "received"
    /\ samples[ret.target].tests = {}
    /\ history[ret.target] = <<HistoryRow("", "received", "tech1")>>

(***************************************************************************)
(* The whole route of a sample through the laboratory: the director does   *)
(* the desk work (intake, manual status edits, job creation, receipt       *)
(* forms), and every user may post job actions.                            *)
(***************************************************************************)
NextLab ==
    \/ /\ Len(samples) < MaxSamples
       /\ new_sample_intake("dir", TestItems, WalkIn)
    \/ /\ Len(samples) < MaxSamples
       /\ quick_sample_intake("dir", "acme")
    \/ \E s \in 1..Len(samples), t \in TestItems :
          add_tests_to_sample("dir", s, t)
    \/ \E s \in 1..Len(samples), posted \in SAMPLE_STATUS :
          sample_detail("dir", s, posted)
    \/ /\ Len(jobs) < MaxJobs
       /\ \E s \in 1..Len(samples), technician \in Users :
             create_job("dir", s, technician, TestItems)
    \/ \E u \in Users, j \in 1..Len(jobs), action \in JobActions :
          update_job_status(u, j, action, "")
    \/ /\ Len(receipts) < MaxReceipts
       /\ \E s \in 1..Len(samples) : create_receipt_form("dir", {s})

SpecLab == Init /\ [][NextLab]_vars

\* C16: the status history only grows: whatever an intake, a manual edit,
\* create_job, a job operation or the creation of a receipt form does, every
\* history row that existed before is still there, unchanged and in place.
C16_HistoryAppendOnly ==
    [][/\ Len(history') >= Len(history)
       /\ \A s \in 1..Len(history) :
             /\ Len(history'[s]) >= Len(history[s])
             /\ SubSeq(history'[s], 1, Len(history[s])) = history[s]]_vars

\* A sample on a receipt form whose history holds the rows of the intake, of
\* a job operation and of a manual edit.
C16_Witness ==
    /\ receipts # <<>>
    /\ edits > 0
    /\ \E s \in 1..Len(history) :
          /\ Len(history[s]) >= 4
          /\ history[s][1] = HistoryRow("", "received", "dir")
          /\ \E i \in 1..Len(history[s]) : history[s][i].changed_by # "dir"

\* The status a successful call of the operation leaves the Job in.
StatusAfter(op) ==
    CASE op = "start_work" -> "in_progress"
      [] op = "complete_job" -> "completed"
      [] op = "put_on_hold" -> "on_hold"
      [] op = "resume_work" -> "in_progress"

\* C17: a Job's status changes only in a call of one of the four guarded
\* operations on that Job, from a status the operation allows to the status
\* it sets: pending or assigned to in_progress (start_work), in_progress to
\* completed (complete_job), assigned or in_progress to on_hold
\* (put_on_hold), on_hold to in_progress (resume_work).  So a completed or
\* cancelled Job keeps its status, and an on_hold Job is completed only
\* after resume_work.
C17_JobEdges ==
    [][\A j \in 1..Len(jobs) :
          jobs'[j].status # jobs[j].status =>
              /\ ret'.op \in GuardedOps /\ ret'.target = j /\ ret'.ok
              /\ jobs[j].status \in AllowedFrom(ret'.op)
              /\ jobs'[j].status = StatusAfter(ret'.op)
              /\ jobs[j].status \notin {"completed", "cancelled"}
              /\ jobs[j].status = "on_hold" => jobs'[j].status = "in_progress"]_vars

\* A Job that was put on hold after work had started, resumed a month later
\* and completed.
C17_Witness ==
    /\ ret.op = "complete_job" /\ ret.ok
    /\ jobs[ret.target].status = "completed"
    /\ jobs[ret.target].notes # <<>>
    /\ jobs[ret.target].started_date = DateOf(StartTime)
    /\ jobs[ret.target].completed_date = DateOf(StartTime + 1)

\* The one change of a Sample's status that the job operation of the step
\* may make, as <<from, to>>; none for put_on_hold and resume_work.
SampleEdges ==
    IF ret'.op = "create_job" \/ ret'.info = "start"
    THEN {<<"received", "in_progress">>}
    ELSE IF ret'.info = "complete"
    THEN {<<"in_progress", "testing">>}
    ELSE {}

\* C18: create_job and start_work change a Sample only from received to
\* in_progress, complete_job only from in_progress to testing, put_on_hold
\* and resume_work change no Sample; so no job operation touches a Sample
\* that is in testing, completed, reported or cancelled.
C18_SampleEdges ==
    [][ret'.op \in {"create_job", "update_job_status"} =>
          \A s \in 1..Len(samples) :
              samples'[s] # samples[s] =>
                  /\ samples'[s] = [samples[s] EXCEPT !.status = samples'[s].status]
                  /\ <<samples[s].status, samples'[s].status>> \in SampleEdges
                  /\ samples[s].status \notin
                        {"testing", "completed", "reported", "cancelled"}]_vars

\* start_work has just moved a Sample that a manual edit had set back to
\* received.
C18_Witness ==
    /\ ret.op = "update_job_status" /\ ret.info = "start" /\ ret.ok
    /\ edits > 0
    /\ LET h == history[jobs[ret.target].sample]
       IN  /\ h[Len(h)] = HistoryRow("received", "in_progress", ret.user)
           /\ samples[jobs[ret.target].sample].status = "in_progress"

\* C19: when create_job has created a Job, the Job is assigned, has a
\* technician and has its assigned_date set; and whatever create_job and the
\* four job operations do afterwards, no Job is ever pending or cancelled.
C19_CreatedAssigned ==
    [][/\ (ret'.op = "create_job" /\ ret'.ok) =>
            /\ Len(jobs') = Len(jobs) + 1
            /\ jobs'[Len(jobs')].status = "assigned"
            /\ jobs'[Len(jobs')].assigned_to \in Users
            /\ jobs'[Len(jobs')].assigned_date = DateOf(now)
       /\ \A j \in 1..Len(jobs') :
             jobs'[j].status \notin {"pending", "cancelled"}]_vars

\* Two Jobs were created for a Sample and one of them has been worked on and
\* put on hold since.
C19_Witness ==
    /\ Len(jobs) = 2
    /\ jobs[1].sample = jobs[2].sample
    /\ jobs[1].status = "on_hold" /\ jobs[1].started_date # NullDate
    /\ jobs[2].status = "assigned" /\ jobs[2].assigned_date # NullDate
    /\ ret.op = "create_job" /\ ret.ok

(***************************************************************************)
(* Manual status edits of a stored Sample, whatever its status.  A Sample  *)
(* that is no longer received carries the history row of the manual edit   *)
(* that last set its status.                                               *)
(***************************************************************************)
StoredHistory(st) ==
    IF st = "received"
    THEN <<HistoryRow("", "received", "dir")>>
    ELSE <<HistoryRow("", "received", "dir"), HistoryRow(st, st, "dir")>>

InitEdit ==
    /\ now = StartTime
    /\ role = StaffRole
    /\ clients = StoredClients
    /\ samples \in {<<row>> : row \in StoredSampleRows}
    /\ history = <<StoredHistory(samples[1].status)>>
    /\ jobs = <<>>
    /\ receipts = <<>>
    /\ edits = 0
    /\ reqs = [r \in ReqIds |-> IdleReq]
    /\ ret = NoRet

NextEdit ==
    \/ \E u \in Users, s \in 1..Len(samples), posted \in SAMPLE_STATUS \cup {"lost"} :
          sample_detail(u, s, posted)
    \/ Tick

SpecEdit == InitEdit /\ [][NextEdit]_vars

\* C20: whatever status a Sample has, a manual edit by a user of the
\* operations module that posts any of the six statuses can only succeed
\* and set that status: no order is enforced, a Sample leaves reported and
\* cancelled and moves backwards.
C20_AnyToAny ==
    \A u \in Users, s \in 1..Len(samples), posted \in SAMPLE_STATUS :
        (check_operations_access(u) /\ edits < MaxEdits) =>
            /\ ENABLED (/\ sample_detail(u, s, posted)
                        /\ ret'.ok /\ samples'[s].status = posted)
            /\ ~ENABLED (/\ sample_detail(u, s, posted)
                         /\ ~(ret'.ok /\ samples'[s].status = posted))

\* A reported Sample has just been set back to received by a technician.
C20_Witness ==
    /\ ret.op = "sample_detail" /\ ret.ok /\ ret.user = "tech1"
    /\ samples[ret.target].status = "received"
    /\ Len(history[ret.target]) = 3
    /\ history[ret.target][2].new_status = "reported"
    /\ history[ret.target][3].new_status = "received"

\* C21: a manual status edit is accepted only from the roles that may create
\* jobs; one posted by any other user, a technician among them, is rejected
\* and leaves the Sample's status and history as they were.
C21_EditsPrivileged ==
    [][(ret'.op = "sample_detail" /\ ~check_job_creation_access(ret'.user)) =>
          /\ ~ret'.ok
          /\ samples' = samples
          /\ history' = history]_vars

\* C22: update_job_status changes something only for a user who has role
\* technician and is the Job's assigned_to; for every other user, whatever
\* the action, the call fails and the Job, the Sample and the history stay
\* as they were.
C22_OnlyAssignedTechnician ==
    [][\A j \in 1..Len(jobs) :
          (/\ ret'.op = "update_job_status" /\ ret'.target = j
           /\ ~(role[ret'.user] = "technician" /\ jobs[j].assigned_to = ret'.user))
              => /\ ~ret'.ok
                 /\ jobs' = jobs /\ samples' = samples /\ history' = history]_vars

\* The other technician was refused on a Job that its own technician had
\* started.
C22_Witness ==
    /\ ret.op = "update_job_status" /\ ~ret.ok /\ ret.info = "not assigned"
    /\ ret.user = "tech2"
    /\ jobs[ret.target].assigned_to = "tech1"
    /\ jobs[ret.target].status = "in_progress"

\* C23: resume_work on an on_hold Job sets started_date only when it is not
\* set: a Job that was put on hold after work had started keeps the
\* started_date it had, a Job put on hold before work started gets the time
\* of the resume; nothing else of the Job changes but its status.
C23_ResumeKeepsStart ==
    [][\A j \in 1..Len(jobs) :
          (ret'.op = "resume_work" /\ ret'.target = j /\ jobs[j].status = "on_hold")
              => /\ ret'.ok
                 /\ jobs'[j] = [jobs[j] EXCEPT
                        !.status = "in_progress",
                        !.started_date = IF jobs[j].started_date = NullDate
                                         THEN DateOf(now)
                                         ELSE jobs[j].started_date]]_vars

\* Work on a Job that was started the month before and put on hold has just
\* been resumed; the Job still carries the started_date of the month before.
C23_Witness ==
    /\ ret.op = "resume_work" /\ ret.ok
    /\ now = StartTime + 1
    /\ jobs[ret.target].status = "in_progress"
    /\ jobs[ret.target].started_date = DateOf(StartTime)
    /\ jobs[ret.target].notes # <<>>

\* C24: a Client that client_delete has deactivated receives no new Sample:
\* no intake saves a Sample that belongs to a Client whose is_active is
\* false.
C24_InactiveGetsNoSample ==
    [][Intake =>
          LET c == samples'[ret'.target].client
          IN  c \in 1..Len(clients) => clients[c].is_active]_vars

\* The step in which a create_receipt_form request returns.
ReceiptReturns == ret' # ret /\ ret'.op = "create_receipt_form"

\* C25: every Sample that create_receipt_form attaches to the receipt form
\* it creates is received and on no other receipt form at that moment; a
\* submission that is refused creates no receipt form and uses no number.
C25_AttachedWereReceived ==
    [][/\ (ReceiptReturns /\ ret'.ok) =>
            \A s \in receipts'[ret'.target].samples :
                /\ samples[s].status = "received"
                /\ \A i \in 1..Len(receipts) :
                      i # ret'.target => s \notin receipts[i].samples
       /\ (ReceiptReturns /\ ~ret'.ok) => receipts' = receipts]_vars

\* C26: a successful create_job never leaves the Sample received: a received
\* Sample moves to in_progress with exactly one new history row, received to
\* in_progress by the job creator, and any other Sample keeps its status and
\* history.  So when start_work appends a history row, a manual edit has set
\* the Sample back to received since its first Job was created.
C26_CreateJobMovesSample ==
    [][\A s \in 1..Len(samples) :
          /\ (ret'.op = "create_job" /\ ret'.ok /\ ret'.target = s) =>
                /\ samples'[s].status # "received"
                /\ IF samples[s].status = "received"
                   THEN /\ samples'[s].status = "in_progress"
                        /\ history'[s] = Append(history[s],
                               HistoryRow("received", "in_progress", ret'.user))
                   ELSE /\ samples'[s] = samples[s]
                        /\ history'[s] = history[s]
          /\ (/\ ret'.op = "update_job_status" /\ ret'.info = "start"
              /\ history'[s] # history[s]) =>
                /\ edits > 0
                /\ Len(history[s]) >= 3
                /\ history[s][Len(history[s])].new_status = "received"]_vars

\* create_job has just moved a received Sample to in_progress.
C26_Witness ==
    /\ ret.op = "create_job" /\ ret.ok
    /\ samples[ret.target].status = "in_progress"
    /\ LET h == history[ret.target]
       IN  h[Len(h)] = HistoryRow("received", "in_progress", ret.user)
    /\ jobs[Len(jobs)].sample = ret.target
    /\ jobs[Len(jobs)].status = "assigned"

\* C27: in every state reached by intakes, manual edits, create_job and job
\* operations that do not overlap, each Sample has at least one history row
\* and the new_status of its latest row is the Sample's current status.
C27_HistoryTracksStatus ==
    \A s \in 1..Len(samples) :
        /\ Len(history[s]) >= 1
        /\ history[s][Len(history[s])].new_status = samples[s].status

\* A Sample that went through intake, create_job, a manual edit and the
\* completion of its Job.
C27_Witness ==
    /\ Len(samples) >= 1
    /\ samples[1].status = "testing"
    /\ edits > 0
    /\ Len(history[1]) >= 4
    /\ history[1][Len(history[1])].old_status = "in_progress"
    /\ \E j \in 1..Len(jobs) : jobs[j].status = "completed"

(***************************************************************************)
(* Overlapping complete actions.  update_job_status reads the Job, and     *)
(* complete_job then saves the Job, reads the parent Sample, asks whether  *)
(* another Job of the Sample is still open, and saves the Sample and the   *)
(* history row; nothing holds these reads and writes together, so the      *)
(* steps of two requests interleave.  A request that has returned keeps    *)
(* its slot, with the outcome in data.ok.                                  *)
(***************************************************************************)
Returned(r, u, j, ok, info) ==
    /\ reqs' = [reqs EXCEPT ![r] = [pc |-> "returned", user |-> u,
                                     data |-> [j |-> j, ok |-> ok]]]
    /\ ret' = Ret("update_job_status", u, j, ok, info)

InitFinish ==
    /\ now = StartTime
    /\ role = StaffRole
    /\ clients = StoredClients
    /\ samples \in {<<row>> : row \in {x \in StoredSampleRows : x.status = "in_progress"}}
    /\ history = <<<<HistoryRow("", "received", "dir"),
                     HistoryRow("received", "in_progress", "dir")>>>>
    /\ jobs \in {<<[j1 EXCEPT !.assigned_to = t1], [j2 EXCEPT !.assigned_to = t2]>> :
                    j1 \in {x \in StoredJobRows(1) : StoredJob(x)
                               /\ x.status \in {"assigned", "in_progress", "on_hold"}},
                    j2 \in {x \in StoredJobRows(2) : StoredJob(x)
                               /\ x.status \in {"assigned", "in_progress", "on_hold"}},
                    t1 \in {"tech1", "tech2"}, t2 \in {"tech1", "tech2"}}
    /\ receipts = <<>>
    /\ edits = 0
    /\ reqs = [r \in ReqIds |-> IdleReq]
    /\ ret = NoRet

\* The view up to job = get_object_or_404(...) and the assignment test.
complete_load(r, u, j) ==
    /\ Idle(r)
    /\ j \in 1..Len(jobs)
    /\ IF ~check_operations_access(u) \/ role[u] # "technician"
       THEN Returned(r, u, j, FALSE, "PermissionDenied")
       ELSE IF jobs[j].assigned_to # u
       THEN Returned(r, u, j, FALSE, "not assigned")
       ELSE /\ reqs' = [reqs EXCEPT ![r] = [pc |-> "job_loaded", user |-> u,
                                           data |-> [j |-> j, job |-> jobs[j]]]]
            /\ UNCHANGED ret
    /\ UNCHANGED <<now, role, clients, samples, history, jobs, receipts, edits>>

\* complete_job that goes on without saving the Job.
complete_save_Unsaved(r) ==
    /\ reqs[r].pc = "job_loaded"
    /\ LET d == reqs[r].data
       IN  IF d.job.status = "in_progress"
           THEN /\ reqs' = [reqs EXCEPT ![r].pc = "job_saved"]
                /\ UNCHANGED <<jobs, ret>>
           ELSE /\ Returned(r, reqs[r].user, d.j, FALSE, "complete")
                /\ UNCHANGED jobs
    /\ UNCHANGED <<now, role, clients, samples, history, receipts, edits>>

\* The status test on the Job as it was read, and self.save().
complete_save(r) ==
    /\ reqs[r].pc = "job_loaded"
    /\ LET d == reqs[r].data
       IN  IF d.job.status = "in_progress"
           THEN /\ jobs' = [jobs EXCEPT ![d.j] =
                              [d.job EXCEPT !.status = "completed",
                                            !.completed_date = DateOf(now)]]
                /\ reqs' = [reqs EXCEPT ![r].pc = "job_saved"]
                /\ UNCHANGED ret
           ELSE /\ Returned(r, reqs[r].user, d.j, FALSE, "complete")
                /\ UNCHANGED jobs
    /\ UNCHANGED <<now, role, clients, samples, history, receipts, edits>>

\* self.sample is read from the database when it is first used.
complete_sample(r) ==
    /\ reqs[r].pc = "job_saved"
    /\ LET d == reqs[r].data
       IN  reqs' = [reqs EXCEPT ![r] = [pc |-> "sample_loaded", user |-> reqs[r].user,
                       data |-> [j |-> d.j, job |-> d.job,
                                 sample |-> samples[d.job.sample]]]]
    /\ UNCHANGED <<now, role, clients, samples, history, jobs, receipts, edits, ret>>

\* The query for other open Jobs, and the test that decides on the Sample.
complete_query(r) ==
    /\ reqs[r].pc = "sample_loaded"
    /\ LET d == reqs[r].data
       IN  IF AllJobsCompleted(d.j) /\ d.sample.status = "in_progress"
           THEN /\ reqs' = [reqs EXCEPT ![r].pc = "sample_changed"]
                /\ UNCHANGED ret
           ELSE Returned(r, reqs[r].user, d.j, TRUE, "complete")
    /\ UNCHANGED <<now, role, clients, samples, history, jobs, receipts, edits>>

\* self.sample.save() of the Sample as it was read, with status testing.
complete_sample_save(r) ==
    /\ reqs[r].pc = "sample_changed"
    /\ LET d == reqs[r].data
       IN  samples' = [samples EXCEPT ![d.job.sample] =
                          [d.sample EXCEPT !.status = "testing"]]
    /\ reqs' = [reqs EXCEPT ![r].pc = "sample_saved"]
    /\ UNCHANGED <<now, role, clients, history, jobs, receipts, edits, ret>>

\* The history row, and the return of the view.
complete_history(r) ==
    /\ reqs[r].pc = "sample_saved"
    /\ LET d == reqs[r].data
       IN  /\ history' = AddHistory(history, d.job.sample,
                  HistoryRow(d.sample.status, "testing", reqs[r].user))
           /\ Returned(r, reqs[r].user, d.j, TRUE, "complete")
    /\ UNCHANGED <<now, role, clients, samples, jobs, receipts, edits>>

NextFinish ==
    \/ \E r \in ReqIds, u \in Users, j \in 1..MaxJobs : complete_load(r, u, j)
    \/ \E r \in ReqIds : complete_save(r)
    \/ \E r \in ReqIds : complete_sample(r)
    \/ \E r \in ReqIds : complete_query(r)
    \/ \E r \in ReqIds : complete_sample_save(r)
    \/ \E r \in ReqIds : complete_history(r)

SpecFinish == InitFinish /\ [][NextFinish]_vars

\* C28: a Sample in in_progress has two Jobs, both in_progress, and two
\* complete calls, one on each Job, overlap in any way; once both calls have
\* returned, the Sample's status is testing.
C28_BothCompleteGivesTesting ==
    (/\ \A r \in ReqIds : reqs[r].pc = "returned" /\ reqs[r].data.ok
     /\ reqs["a"].data.j # reqs["b"].data.j)
        => samples[1].status = "testing"

\* Both calls have returned after each read the Sample before the other
\* saved it: the Sample is in testing and the history holds the move twice.
C28_Witness ==
    /\ \A r \in ReqIds : reqs[r].pc = "returned" /\ reqs[r].data.ok
    /\ reqs["a"].data.j # reqs["b"].data.j
    /\ \A j \in 1..Len(jobs) : jobs[j].status = "completed"
    /\ samples[1].status = "testing"
    /\ Len(history[1]) = 4
    /\ history[1][3].new_status = "testing"
    /\ history[1][4] = HistoryRow("in_progress", "testing", reqs["b"].user)

\* C29: in every state reached through create_job and the four guarded
\* operations, a Job has completed_date set exactly when its status is
\* completed, and every Job in in_progress or completed has started_date set.
C29_JobDatesFollowStatus ==
    \A j \in 1..Len(jobs) :
        /\ jobs[j].completed_date # NullDate <=> jobs[j].status = "completed"
        /\ jobs[j].status \in {"in_progress", "completed"}
              => jobs[j].started_date # NullDate

\* One Job has just been completed; the other is on hold and was never
\* started.
C29_Witness ==
    /\ Len(jobs) = 2
    /\ ret.op = "update_job_status" /\ ret.ok /\ ret.info = "complete"
    /\ jobs[ret.target].status = "completed"
    /\ jobs[ret.target].completed_date # NullDate
    /\ jobs[ret.target].started_date # NullDate
    /\ \E k \in 1..Len(jobs) : /\ jobs[k].status = "on_hold"
                               /\ jobs[k].started_date = NullDate

\* C30: the two copies of the access matrix agree: for every role, a role
\* outside the four included, and every module, can_access_module is true
\* exactly when the module is in get_accessible_modules; a role outside the
\* four gets the empty list and is refused every module.
C30_CopiesAgree ==
    /\ ret.op = "can_access_module"
          => /\ ret.ok <=> ret.info \in Elements(get_accessible_modules(role[ret.user]))
             /\ role[ret.user] \notin ROLE_CHOICES => ~ret.ok
    /\ ret.op = "get_accessible_modules"
          => /\ \A module_name \in Modules \cup {OtherModule} :
                    module_name \in Elements(ret.info)
                        <=> can_access_module(role[ret.user], module_name)
             /\ role[ret.user] \notin ROLE_CHOICES => ret.info = <<>>

\* A user whose role is outside the four asked for the module list and got
\* the empty list.
C30_Witness ==
    /\ ret.op = "get_accessible_modules"
    /\ role[ret.user] = OtherRole
    /\ ret.info = <<>>
    /\ \A module_name \in Modules : ~can_access_module(role[ret.user], module_name)

====
